---- MODULE Spec2Model ----
(***************************************************************************)
(* Live-chat relay: the WebSocket connection registry, the message router, *)
(* the typing broadcaster, the session lifecycle and the storage layer of  *)
(* server/routes.ts and server/storage.ts (src/unnamed/part_003).          *)
(*                                                                         *)
(* The server is a single-threaded event loop.  A handler runs atomically  *)
(* up to each `await`; every awaited store call is a step of its own, so   *)
(* handlers of different events interleave exactly at the awaits.  An      *)
(* in-flight handler is a task record holding its position (pc) and the    *)
(* locals it captured.                                                     *)
(***************************************************************************)
EXTENDS Integers, Sequences, FiniteSets, Bags, TLC

\* ---------------------------------------------------------------- bounds
MaxConns == 3        \* WebSocket connections
MaxClients == 2      \* connections opened from scratch in the full lifecycle (Spec)
MaxMessages == 2     \* rows of the messages table
MaxTasks == 2        \* handlers suspended at an await at the same time
MaxOnline == 3       \* join events accepted (rows of online_users)
MaxTime == 1         \* clock ticks (Date.now() / now())
MaxCloses == 1       \* connections that close

\* ------------------------------------------------------------ value sets
Conns == 1..MaxConns
Usernames == {"admin", "alice", "bob"}
RoomIds == {"alice", "bob"}
Bodies == {"hello"}
Undefined == "undefined"

\* The column default of messages.is_read.
IsReadDefault == FALSE

\* lastMessage: null of getAllUsersWithMessages; ids of real rows start at 1.
NullMessage == [id |-> 0]

VARIABLES
    readyState,    \* ws.readyState of every connection: "NONE" (not yet opened), "OPEN", "CLOSED"
    connections,   \* the Map<WebSocket, {username, isAdmin, roomId}> of registerRoutes
    users,         \* table users
    messages,      \* table messages, in insertion (id) order
    onlineUsers,   \* table online_users, in insertion order
    tasks,         \* bag of handlers suspended at an await
    now,           \* the clock read by Date.now() and by the timestamp defaults
    step,          \* the handler step that produced this state, with its inputs
    out,           \* the ws.send calls of that step, in order: [to, type, data]
    sentOffline,   \* history: ids of the users' messages stored while no admin connection was open
    dashboardOnlineUsers,  \* the onlineUsers state of the client behind each connection
    dashboardUsers         \* the users state (conversation index) of that client

vars == <<readyState, connections, users, messages, onlineUsers, tasks, now, step, out,
          sentOffline, dashboardOnlineUsers, dashboardUsers>>

store == <<users, messages, onlineUsers>>

\* ------------------------------------------------------------- schema
\* z.string(): any string, the empty one included; undefined is rejected.
IsString(x) == x # Undefined

\* Variant: a schema whose receiverUsername is optional.
InsertMessageSchemaOkLoose(v) ==
    /\ IsString(v.roomId)
    /\ IsString(v.senderUsername)
    /\ IsString(v.message)

\* insertMessageSchema.parse: the four picked columns are required strings.
InsertMessageSchemaOk(v) ==
    /\ IsString(v.roomId)
    /\ IsString(v.senderUsername)
    /\ IsString(v.receiverUsername)
    /\ IsString(v.message)

\* Variant: the sender is taken from the payload when it names one.
ValidatedMessageFromPayload(connectionInfo, messageData) ==
    [roomId |-> messageData.roomId,
     senderUsername |-> IF IsString(messageData.username) THEN messageData.username
                        ELSE connectionInfo.username,
     receiverUsername |-> IF connectionInfo.isAdmin THEN messageData.targetUsername ELSE "admin",
     message |-> messageData.message]

\* The object handed to insertMessageSchema.parse by the `message` case.
ValidatedMessage(connectionInfo, messageData) ==
    [roomId |-> messageData.roomId,
     senderUsername |-> connectionInfo.username,
     receiverUsername |-> IF connectionInfo.isAdmin THEN messageData.targetUsername ELSE "admin",
     message |-> messageData.message]

\* ------------------------------------------------------------- storage
\* .orderBy(asc(messages.timestamp)): a stable sort on the timestamp.
InsertByTimestamp(s, m) ==
    LET k == Cardinality({i \in 1..Len(s) : s[i].timestamp <= m.timestamp})
    IN  SubSeq(s, 1, k) \o <<m>> \o SubSeq(s, k + 1, Len(s))

RECURSIVE OrderByTimestamp(_)
OrderByTimestamp(s) ==
    IF s = <<>> THEN <<>>
    ELSE InsertByTimestamp(OrderByTimestamp(SubSeq(s, 1, Len(s) - 1)), s[Len(s)])

\* DatabaseStorage.getUserByUsername: the rows with that username.
GetUserByUsername(table, username) == {u \in table : u.username = username}

\* DatabaseStorage.createMessage: insert ... returning; serial id, defaults.
NewMessage(table, insertMessage, t) ==
    [id |-> Len(table) + 1,
     roomId |-> insertMessage.roomId,
     senderUsername |-> insertMessage.senderUsername,
     receiverUsername |-> insertMessage.receiverUsername,
     message |-> insertMessage.message,
     timestamp |-> t,
     isRead |-> IsReadDefault]

\* DatabaseStorage.getMessagesBetweenUsers.
GetMessagesBetweenUsers(table, user1, user2) ==
    OrderByTimestamp(SelectSeq(table, LAMBDA m :
        \/ (m.senderUsername = user1 /\ m.receiverUsername = user2)
        \/ (m.senderUsername = user2 /\ m.receiverUsername = user1)))

\* Variant: every message of the room is marked, whoever it is addressed to.
MarkMessagesAsReadWholeRoom(table, roomId, username) ==
    [i \in 1..Len(table) |->
        IF table[i].roomId = roomId
        THEN [table[i] EXCEPT !.isRead = TRUE]
        ELSE table[i]]

\* Variant: the update flips is_read instead of setting it.
MarkMessagesAsReadFlips(table, roomId, username) ==
    [i \in 1..Len(table) |->
        IF table[i].roomId = roomId /\ table[i].receiverUsername = username
        THEN [table[i] EXCEPT !.isRead = ~table[i].isRead]
        ELSE table[i]]

\* DatabaseStorage.markMessagesAsRead.
MarkMessagesAsRead(table, roomId, username) ==
    [i \in 1..Len(table) |->
        IF table[i].roomId = roomId /\ table[i].receiverUsername = username
        THEN [table[i] EXCEPT !.isRead = TRUE]
        ELSE table[i]]

\* DatabaseStorage.removeOnlineUser.
RemoveOnlineUser(table, socketId) ==
    SelectSeq(table, LAMBDA r : r.socketId # socketId)

\* Variant: the reducer keeps the first message it saw as lastMessage.
GroupMessageKeepsFirst(acc, msg) ==
    LET username == IF msg.senderUsername = "admin" THEN msg.receiverUsername
                    ELSE msg.senderUsername
        acc1 == IF \E i \in 1..Len(acc) : acc[i].username = username
                THEN acc
                ELSE Append(acc, [username |-> username, roomId |-> msg.roomId,
                                  lastMessage |-> NullMessage, unreadCount |-> 0])
        i == CHOOSE j \in 1..Len(acc1) : acc1[j].username = username
        currentUser == acc1[i]
        last == IF currentUser.lastMessage.id = 0 THEN msg ELSE currentUser.lastMessage
        unread == IF msg.senderUsername = username /\ msg.receiverUsername = "admin"
                     /\ ~msg.isRead
                  THEN currentUser.unreadCount + 1 ELSE currentUser.unreadCount
    IN  [acc1 EXCEPT ![i] = [currentUser EXCEPT !.lastMessage = last,
                                                !.unreadCount = unread]]

\* The reducer of getAllUsersWithMessages, one message at a time.
GroupMessage(acc, msg) ==
    LET username == IF msg.senderUsername = "admin" THEN msg.receiverUsername
                    ELSE msg.senderUsername
        acc1 == IF \E i \in 1..Len(acc) : acc[i].username = username
                THEN acc
                ELSE Append(acc, [username |-> username, roomId |-> msg.roomId,
                                  lastMessage |-> NullMessage, unreadCount |-> 0])
        i == CHOOSE j \in 1..Len(acc1) : acc1[j].username = username
        currentUser == acc1[i]
        last == IF currentUser.lastMessage.id = 0
                   \/ msg.timestamp > currentUser.lastMessage.timestamp
                THEN msg ELSE currentUser.lastMessage
        unread == IF msg.senderUsername = username /\ msg.receiverUsername = "admin"
                     /\ ~msg.isRead
                  THEN currentUser.unreadCount + 1 ELSE currentUser.unreadCount
    IN  [acc1 EXCEPT ![i] = [currentUser EXCEPT !.lastMessage = last,
                                                !.unreadCount = unread]]

RECURSIVE Reduce(_, _)
Reduce(msgs, acc) ==
    IF msgs = <<>> THEN acc ELSE Reduce(Tail(msgs), GroupMessage(acc, Head(msgs)))

\* DatabaseStorage.getAllUsersWithMessages.
GetAllUsersWithMessages(table) ==
    Reduce(OrderByTimestamp(SelectSeq(table, LAMBDA m :
               m.receiverUsername = "admin" \/ m.senderUsername = "admin")),
           <<>>)

\* ------------------------------------------------------------ registry
Registered(c) == c \in DOMAIN connections

\* connections.set(ws, info)
ConnectionsSet(c, info) ==
    [d \in DOMAIN connections \cup {c} |-> IF d = c THEN info ELSE connections[d]]

\* connections.delete(ws)
ConnectionsDelete(c) ==
    [d \in DOMAIN connections \ {c} |-> connections[d]]

\* connections.forEach((info, ws) => { if (cond(info) && ws.readyState === OPEN) ws.send(...) }),
\* `matching` being the registered connections whose info satisfies cond.
\* The sends of one loop go to different connections; they are listed by connection.
ForEachSend(matching, type, data) ==
    LET all == [c \in 1..MaxConns |-> c]
        sel == SelectSeq(all, LAMBDA c :
                   Registered(c) /\ c \in matching /\ readyState[c] = "OPEN")
    IN  [k \in 1..Len(sel) |-> [to |-> sel[k], type |-> type, data |-> data]]

\* ws.send on the handler's own socket: the ws library drops the frame unless OPEN.
SendTo(c, type, data) ==
    IF readyState[c] = "OPEN" THEN <<[to |-> c, type |-> type, data |-> data]>> ELSE <<>>

\* Variant: the self-echo does not look at the role.
AdminMessageTargetAnyRole(targetInfo, connectionInfo, messageData) ==
    \/ targetInfo.username = messageData.targetUsername
    \/ targetInfo.username = connectionInfo.username

\* Fan-out condition of an admin-authored message (case 'message', admin branch).
AdminMessageTarget(targetInfo, connectionInfo, messageData) ==
    \/ targetInfo.username = messageData.targetUsername
    \/ (targetInfo.isAdmin /\ targetInfo.username = connectionInfo.username)

\* Variant: no echo to the sender's own connections.
UserMessageTargetAdminsOnly(targetInfo, connectionInfo) ==
    targetInfo.isAdmin

\* Fan-out condition of a user-authored message (case 'message', user branch).
UserMessageTarget(targetInfo, connectionInfo) ==
    targetInfo.isAdmin \/ targetInfo.username = connectionInfo.username

\* Variant: an admin's typing event goes to every user.
AdminTypingTargetEveryUser(targetInfo, typingData) ==
    ~targetInfo.isAdmin

\* Fan-out condition of an admin's typing event.
AdminTypingTarget(targetInfo, typingData) ==
    targetInfo.username = typingData.targetUsername

\* Variant: the loop does not look at the role.
IsAdminTargetAnyone(targetInfo) == TRUE

\* Fan-out condition of a user's typing event, of newUser and of userLeft.
IsAdminTarget(targetInfo) == targetInfo.isAdmin

\* ---------------------------------------------------- dashboard client
\* ws.onmessage of the admin dashboard, as far as it sets onlineUsers: the list
\* is kept as the set of its (username, isAdmin) pairs.
ClientOnMessage(prev, event) ==
    CASE event.type = "adminJoined" ->
             {[username |-> event.data.onlineUsers[k].username,
               isAdmin |-> event.data.onlineUsers[k].isAdmin] :
                  k \in 1..Len(event.data.onlineUsers)}
      [] event.type = "newUser" ->
             IF \E u \in prev : u.username = event.data.username THEN prev
             ELSE prev \cup {[username |-> event.data.username, isAdmin |-> FALSE]}
      [] event.type = "userLeft" ->
             {u \in prev : u.username # event.data.username}
      [] OTHER -> prev

\* The clients handle the frames of a step in the order they were sent.
RECURSIVE Deliver(_, _)
Deliver(lists, sends) ==
    IF sends = <<>> THEN lists
    ELSE Deliver([lists EXCEPT ![Head(sends).to] = ClientOnMessage(@, Head(sends))],
                 Tail(sends))

\* selectedUser of the dashboard behind each connection, null when no
\* conversation is open. The WebSocket effect depends on selectedUser, so a
\* connection's onmessage sees the value its page had when it connected: the
\* page behind the last connection has alice's conversation open.
NoSelection == "null"
SelectedUser(c) == IF c = MaxConns THEN "alice" ELSE NoSelection

\* Variant: a newUser event resets the entry of a user already listed.
ClientSetUsersNewUserResets(prev, event, selectedUser) ==
    CASE event.type = "adminJoined" -> event.data.usersWithMessages
      [] event.type = "message" ->
             IF \E k \in 1..Len(prev) : prev[k].username = event.data.senderUsername
             THEN [k \in 1..Len(prev) |->
                      IF prev[k].username = event.data.senderUsername
                      THEN [prev[k] EXCEPT
                               !.lastMessage = event.data,
                               !.unreadCount = IF selectedUser = prev[k].username THEN 0
                                               ELSE prev[k].unreadCount + 1]
                      ELSE prev[k]]
             ELSE Append(prev, [username |-> event.data.senderUsername,
                                roomId |-> event.data.roomId,
                                lastMessage |-> event.data,
                                unreadCount |-> IF selectedUser = event.data.senderUsername
                                                THEN 0 ELSE 1])
      [] event.type = "newUser" ->
             IF \E k \in 1..Len(prev) : prev[k].username = event.data.username
             THEN [k \in 1..Len(prev) |->
                      IF prev[k].username = event.data.username
                      THEN [prev[k] EXCEPT !.lastMessage = NullMessage, !.unreadCount = 0]
                      ELSE prev[k]]
             ELSE Append(prev, [username |-> event.data.username,
                                roomId |-> event.data.roomId,
                                lastMessage |-> NullMessage, unreadCount |-> 0])
      [] OTHER -> prev

\* ws.onmessage of the admin dashboard, as far as it sets users.
ClientSetUsers(prev, event, selectedUser) ==
    CASE event.type = "adminJoined" -> event.data.usersWithMessages
      [] event.type = "message" ->
             IF \E k \in 1..Len(prev) : prev[k].username = event.data.senderUsername
             THEN [k \in 1..Len(prev) |->
                      IF prev[k].username = event.data.senderUsername
                      THEN [prev[k] EXCEPT
                               !.lastMessage = event.data,
                               !.unreadCount = IF selectedUser = prev[k].username THEN 0
                                               ELSE prev[k].unreadCount + 1]
                      ELSE prev[k]]
             ELSE Append(prev, [username |-> event.data.senderUsername,
                                roomId |-> event.data.roomId,
                                lastMessage |-> event.data,
                                unreadCount |-> IF selectedUser = event.data.senderUsername
                                                THEN 0 ELSE 1])
      [] event.type = "newUser" ->
             IF \E k \in 1..Len(prev) : prev[k].username = event.data.username THEN prev
             ELSE Append(prev, [username |-> event.data.username,
                                roomId |-> event.data.roomId,
                                lastMessage |-> NullMessage, unreadCount |-> 0])
      [] OTHER -> prev

\* The page behind a connection that joined as an admin is the dashboard; the
\* chat page of a user keeps no index.
RECURSIVE DeliverUsers(_, _, _)
DeliverUsers(lists, sends, registry) ==
    IF sends = <<>> THEN lists
    ELSE LET e == Head(sends)
             dashboard == \/ e.type = "adminJoined"
                          \/ (e.to \in DOMAIN registry /\ registry[e.to].isAdmin)
         IN  DeliverUsers(IF dashboard
                          THEN [lists EXCEPT ![e.to] = ClientSetUsers(@, e, SelectedUser(e.to))]
                          ELSE lists,
                          Tail(sends), registry)

\* --------------------------------------------------------------- tasks
NumTasks == BagCardinality(tasks)
TaskSet == BagToSet(tasks)
Spawn(t) == tasks (+) SetToBag({t})
Finish(t) == tasks (-) SetToBag({t})
Resume(t, t2) == (tasks (-) SetToBag({t})) (+) SetToBag({t2})
TasksOfKind(k) == BagCardinality([t \in {x \in TaskSet : x.kind = k} |-> tasks[t]])

AdminOpen == \E c \in DOMAIN connections : connections[c].isAdmin /\ readyState[c] = "OPEN"

Init ==
    /\ readyState = [c \in Conns |-> "NONE"]
    /\ connections = <<>>
    /\ users = {}
    /\ messages = <<>>
    /\ onlineUsers = <<>>
    /\ tasks = EmptyBag
    /\ now = 0
    /\ step = [op |-> "init"]
    /\ out = <<>>
    /\ sentOffline = {}
    /\ dashboardOnlineUsers = [c \in Conns |-> {}]
    /\ dashboardUsers = [c \in Conns |-> <<>>]

\* -------------------------------------------------------------- inputs
\* join payloads: the clients send roomId = username (user) or "admin" (admin).
JoinRoomId(username, isAdmin) == IF isAdmin THEN "admin" ELSE username
JoinPayload(u, a) == [username |-> u, isAdmin |-> a, roomId |-> JoinRoomId(u, a)]
\* The identities each connection's client may claim.
JoinPayloads(c) ==
    CASE c = 1 -> {JoinPayload("admin", TRUE), JoinPayload("alice", TRUE)}
      [] c = 2 -> {JoinPayload("alice", FALSE)}
      [] OTHER -> {JoinPayload("alice", FALSE), JoinPayload("bob", FALSE),
                   JoinPayload("admin", TRUE)}
\* join payloads no shipped client sends: no username, an empty username.
MalformedJoinPayloads == {JoinPayload(Undefined, FALSE), JoinPayload("", FALSE)}
\* Frames that make the handler throw before it has done anything: text that
\* is not JSON, and a known type without `data`.
MalformedFrames == {"unparseable", "join without data"}
MessagePayloads ==
    [roomId : {"alice"}, username : {"bob"},
     targetUsername : {"alice", "admin", Undefined}, message : Bodies]
TypingPayloads == [targetUsername : {"alice", Undefined}, isTyping : {TRUE}]
MarkAsReadPayloads == [roomId : RoomIds]

\* ------------------------------------------------------ wss 'connection'
Connection(c) ==
    /\ readyState[c] = "NONE"
    /\ c <= MaxClients
    /\ \A d \in Conns : d < c => readyState[d] # "NONE"
    /\ readyState' = [readyState EXCEPT ![c] = "OPEN"]
    /\ step' = [op |-> "connection", ws |-> c]
    /\ out' = <<>>
    /\ UNCHANGED <<connections, store, tasks, now, sentOffline>>
    /\ dashboardOnlineUsers' = Deliver(dashboardOnlineUsers, out')
    /\ dashboardUsers' = DeliverUsers(dashboardUsers, out', connections')

\* JSON.parse or the destructuring of parsedData.data throws; the catch logs.
Malformed(c, frame) ==
    /\ readyState[c] = "OPEN"
    /\ step' = [op |-> "malformed", ws |-> c, data |-> frame]
    /\ out' = <<>>
    /\ UNCHANGED <<readyState, connections, store, tasks, now, sentOffline>>
    /\ dashboardOnlineUsers' = Deliver(dashboardOnlineUsers, out')
    /\ dashboardUsers' = DeliverUsers(dashboardUsers, out', connections')

\* ------------------------------------------------------------ case 'join'
\* Synchronous part: destructure, connections.set, issue getUserByUsername.
Join(c, data) ==
    /\ readyState[c] = "OPEN"
    /\ NumTasks < MaxTasks
    /\ Len(onlineUsers) + TasksOfKind("join") < MaxOnline
    /\ connections' = ConnectionsSet(c, [username |-> data.username,
                                         isAdmin |-> data.isAdmin,
                                         roomId |-> data.roomId])
    /\ tasks' = Spawn([kind |-> "join", pc |-> "getUserByUsername", ws |-> c,
                       username |-> data.username, isAdmin |-> data.isAdmin,
                       roomId |-> data.roomId])
    /\ step' = [op |-> "join", ws |-> c, data |-> data]
    /\ out' = <<>>
    /\ UNCHANGED <<readyState, store, now, sentOffline>>
    /\ dashboardOnlineUsers' = Deliver(dashboardOnlineUsers, out')
    /\ dashboardUsers' = DeliverUsers(dashboardUsers, out', connections')

\* The awaited calls of the storage layer.
StoreCalls == {"getUserByUsername", "createUser", "addOnlineUser", "getAllUsersWithMessages",
               "getAllOnlineUsers", "getMessagesBetweenUsers", "createMessage",
               "markMessagesAsRead", "removeOnlineUser"}

\* Variant: a rejected createMessage is caught around the call alone, and the
\* handler goes on to the fan-out with the row it wanted to insert.
StoreFailsThenContinues(t) ==
    /\ t.pc \in StoreCalls
    /\ tasks' = IF t.pc = "createMessage"
                THEN Resume(t, [t EXCEPT !.pc = "broadcast"]
                               @@ [message |-> NewMessage(messages,
                                       ValidatedMessage(t.connectionInfo, t.messageData), now)])
                ELSE Finish(t)
    /\ step' = [op |-> t.pc, ok |-> FALSE, task |-> t]
    /\ out' = <<>>
    /\ UNCHANGED <<readyState, connections, store, now, sentOffline>>
    /\ dashboardOnlineUsers' = Deliver(dashboardOnlineUsers, out')
    /\ dashboardUsers' = DeliverUsers(dashboardUsers, out', connections')

\* A rejected store call: the await throws, the catch logs, the handler ends.
StoreFails(t) ==
    /\ t.pc \in StoreCalls
    /\ tasks' = Finish(t)
    /\ step' = [op |-> t.pc, ok |-> FALSE, task |-> t]
    /\ out' = <<>>
    /\ UNCHANGED <<readyState, connections, store, now, sentOffline>>
    /\ dashboardOnlineUsers' = Deliver(dashboardOnlineUsers, out')
    /\ dashboardUsers' = DeliverUsers(dashboardUsers, out', connections')

\* socketId = `${username}-${Date.now()}`
SocketId(username, t) == <<username, t>>

\* Variant: a join whose declared role differs from the stored one is turned down.
JoinGetUserByUsernameChecksRole(t) ==
    /\ t.kind = "join" /\ t.pc = "getUserByUsername"
    /\ LET stored == GetUserByUsername(users, t.username)
           t2 == IF stored # {}
                 THEN [t EXCEPT !.pc = "addOnlineUser"] @@ [socketId |-> SocketId(t.username, now)]
                 ELSE [t EXCEPT !.pc = "createUser"]
       IN  /\ tasks' = IF \E u \in stored : u.isAdmin # t.isAdmin THEN Finish(t)
                       ELSE Resume(t, t2)
           /\ step' = [op |-> t.pc, ok |-> TRUE, task |-> t]
    /\ out' = <<>>
    /\ UNCHANGED <<readyState, connections, store, now, sentOffline>>
    /\ dashboardOnlineUsers' = Deliver(dashboardOnlineUsers, out')
    /\ dashboardUsers' = DeliverUsers(dashboardUsers, out', connections')

JoinGetUserByUsername(t) ==
    /\ t.kind = "join" /\ t.pc = "getUserByUsername"
    /\ LET found == GetUserByUsername(users, t.username) # {}
           t2 == IF found
                 THEN [t EXCEPT !.pc = "addOnlineUser"] @@ [socketId |-> SocketId(t.username, now)]
                 ELSE [t EXCEPT !.pc = "createUser"]
       IN  /\ tasks' = Resume(t, t2)
           /\ step' = [op |-> t.pc, ok |-> TRUE, task |-> t]
    /\ out' = <<>>
    /\ UNCHANGED <<readyState, connections, store, now, sentOffline>>
    /\ dashboardOnlineUsers' = Deliver(dashboardOnlineUsers, out')
    /\ dashboardUsers' = DeliverUsers(dashboardUsers, out', connections')

\* createUser: users.username is NOT NULL and UNIQUE; an insert without a
\* username or a second insert of the name is rejected.
JoinCreateUser(t) ==
    /\ t.kind = "join" /\ t.pc = "createUser"
    /\ IsString(t.username)
    /\ GetUserByUsername(users, t.username) = {}
    /\ users' = users \cup {[username |-> t.username, isAdmin |-> t.isAdmin]}
    /\ tasks' = Resume(t, [t EXCEPT !.pc = "addOnlineUser"]
                          @@ [socketId |-> SocketId(t.username, now)])
    /\ step' = [op |-> t.pc, ok |-> TRUE, task |-> t]
    /\ out' = <<>>
    /\ UNCHANGED <<readyState, connections, messages, onlineUsers, now, sentOffline>>
    /\ dashboardOnlineUsers' = Deliver(dashboardOnlineUsers, out')
    /\ dashboardUsers' = DeliverUsers(dashboardUsers, out', connections')

\* Variant: every join goes on as a user's join.
JoinAddOnlineUserAsUser(t) ==
    /\ t.kind = "join" /\ t.pc = "addOnlineUser"
    /\ onlineUsers' = Append(onlineUsers, [username |-> t.username, roomId |-> t.roomId,
                                           socketId |-> t.socketId, isAdmin |-> t.isAdmin])
    /\ tasks' = Resume(t, [t EXCEPT !.pc = "getMessagesBetweenUsers"])
    /\ step' = [op |-> t.pc, ok |-> TRUE, task |-> t]
    /\ out' = <<>>
    /\ UNCHANGED <<readyState, connections, users, messages, now, sentOffline>>
    /\ dashboardOnlineUsers' = Deliver(dashboardOnlineUsers, out')
    /\ dashboardUsers' = DeliverUsers(dashboardUsers, out', connections')

JoinAddOnlineUser(t) ==
    /\ t.kind = "join" /\ t.pc = "addOnlineUser"
    /\ onlineUsers' = Append(onlineUsers, [username |-> t.username, roomId |-> t.roomId,
                                           socketId |-> t.socketId, isAdmin |-> t.isAdmin])
    /\ tasks' = Resume(t, [t EXCEPT !.pc = IF t.isAdmin THEN "getAllUsersWithMessages"
                                           ELSE "getMessagesBetweenUsers"])
    /\ step' = [op |-> t.pc, ok |-> TRUE, task |-> t]
    /\ out' = <<>>
    /\ UNCHANGED <<readyState, connections, users, messages, now, sentOffline>>
    /\ dashboardOnlineUsers' = Deliver(dashboardOnlineUsers, out')
    /\ dashboardUsers' = DeliverUsers(dashboardUsers, out', connections')

JoinGetAllUsersWithMessages(t) ==
    /\ t.kind = "join" /\ t.pc = "getAllUsersWithMessages"
    /\ tasks' = Resume(t, [t EXCEPT !.pc = "getAllOnlineUsers"]
                          @@ [usersWithMessages |-> GetAllUsersWithMessages(messages)])
    /\ step' = [op |-> t.pc, ok |-> TRUE, task |-> t]
    /\ out' = <<>>
    /\ UNCHANGED <<readyState, connections, store, now, sentOffline>>
    /\ dashboardOnlineUsers' = Deliver(dashboardOnlineUsers, out')
    /\ dashboardUsers' = DeliverUsers(dashboardUsers, out', connections')

JoinGetAllOnlineUsers(t) ==
    /\ t.kind = "join" /\ t.pc = "getAllOnlineUsers"
    /\ tasks' = Resume(t, [t EXCEPT !.pc = "adminJoined"]
                          @@ [allOnlineUsers |-> onlineUsers])
    /\ step' = [op |-> t.pc, ok |-> TRUE, task |-> t]
    /\ out' = <<>>
    /\ UNCHANGED <<readyState, connections, store, now, sentOffline>>
    /\ dashboardOnlineUsers' = Deliver(dashboardOnlineUsers, out')
    /\ dashboardUsers' = DeliverUsers(dashboardUsers, out', connections')

JoinGetMessagesBetweenUsers(t) ==
    /\ t.kind = "join" /\ t.pc = "getMessagesBetweenUsers"
    /\ tasks' = Resume(t, [t EXCEPT !.pc = "userJoined"]
                          @@ [messages |-> GetMessagesBetweenUsers(messages, t.username, "admin")])
    /\ step' = [op |-> t.pc, ok |-> TRUE, task |-> t]
    /\ out' = <<>>
    /\ UNCHANGED <<readyState, connections, store, now, sentOffline>>
    /\ dashboardOnlineUsers' = Deliver(dashboardOnlineUsers, out')
    /\ dashboardUsers' = DeliverUsers(dashboardUsers, out', connections')

\* The admin branch's reply.
JoinAdminJoined(t) ==
    /\ t.kind = "join" /\ t.pc = "adminJoined"
    /\ out' = SendTo(t.ws, "adminJoined", [usersWithMessages |-> t.usersWithMessages,
                                            onlineUsers |-> t.allOnlineUsers])
    /\ tasks' = Finish(t)
    /\ step' = [op |-> t.pc, ok |-> TRUE, task |-> t]
    /\ UNCHANGED <<readyState, connections, store, now, sentOffline>>
    /\ dashboardOnlineUsers' = Deliver(dashboardOnlineUsers, out')
    /\ dashboardUsers' = DeliverUsers(dashboardUsers, out', connections')

\* The user branch's reply and the newUser notification of the admins.
JoinUserJoined(t) ==
    /\ t.kind = "join" /\ t.pc = "userJoined"
    /\ out' = SendTo(t.ws, "userJoined", [messages |-> t.messages, roomId |-> t.roomId])
              \o ForEachSend({d \in DOMAIN connections : IsAdminTarget(connections[d])}, "newUser",
                             [username |-> t.username, roomId |-> t.roomId, isOnline |-> TRUE])
    /\ tasks' = Finish(t)
    /\ step' = [op |-> t.pc, ok |-> TRUE, task |-> t]
    /\ UNCHANGED <<readyState, connections, store, now, sentOffline>>
    /\ dashboardOnlineUsers' = Deliver(dashboardOnlineUsers, out')
    /\ dashboardUsers' = DeliverUsers(dashboardUsers, out', connections')

\* --------------------------------------------------------- case 'message'
\* Synchronous part: registry lookup, schema validation, issue createMessage.
Message(c, messageData) ==
    /\ readyState[c] = "OPEN"
    /\ step' = [op |-> "message", ws |-> c, data |-> messageData]
    /\ out' = <<>>
    /\ IF Registered(c)
          /\ InsertMessageSchemaOk(ValidatedMessage(connections[c], messageData))
       THEN /\ NumTasks < MaxTasks
            /\ Len(messages) + TasksOfKind("message") < MaxMessages
            /\ tasks' = Spawn([kind |-> "message", pc |-> "createMessage", ws |-> c,
                               connectionInfo |-> connections[c],
                               messageData |-> messageData])
       ELSE UNCHANGED tasks
    /\ UNCHANGED <<readyState, connections, store, now, sentOffline>>
    /\ dashboardOnlineUsers' = Deliver(dashboardOnlineUsers, out')
    /\ dashboardUsers' = DeliverUsers(dashboardUsers, out', connections')

\* Variant: the handler ends once the row is stored.
MessageCreateMessageOnly(t) ==
    /\ t.kind = "message" /\ t.pc = "createMessage"
    /\ LET message == NewMessage(messages,
                                 ValidatedMessage(t.connectionInfo, t.messageData), now)
       IN  /\ messages' = Append(messages, message)
           /\ tasks' = Finish(t)
           /\ sentOffline' = IF AdminOpen \/ t.connectionInfo.isAdmin THEN sentOffline
                             ELSE sentOffline \cup {message.id}
    /\ step' = [op |-> t.pc, ok |-> TRUE, task |-> t]
    /\ out' = <<>>
    /\ UNCHANGED <<readyState, connections, users, onlineUsers, now>>
    /\ dashboardOnlineUsers' = Deliver(dashboardOnlineUsers, out')
    /\ dashboardUsers' = DeliverUsers(dashboardUsers, out', connections')

\* The store executes the insert and returns the row.
MessageCreateMessage(t) ==
    /\ t.kind = "message" /\ t.pc = "createMessage"
    /\ LET message == NewMessage(messages,
                                 ValidatedMessage(t.connectionInfo, t.messageData), now)
       IN  /\ messages' = Append(messages, message)
           /\ tasks' = Resume(t, [t EXCEPT !.pc = "broadcast"] @@ [message |-> message])
           /\ sentOffline' = IF AdminOpen \/ t.connectionInfo.isAdmin THEN sentOffline
                             ELSE sentOffline \cup {message.id}
    /\ step' = [op |-> t.pc, ok |-> TRUE, task |-> t]
    /\ out' = <<>>
    /\ UNCHANGED <<readyState, connections, users, onlineUsers, now>>
    /\ dashboardOnlineUsers' = Deliver(dashboardOnlineUsers, out')
    /\ dashboardUsers' = DeliverUsers(dashboardUsers, out', connections')

\* Variant: the handler looks its connection up again after the await and
\* gives up when it is no longer registered.
MessageBroadcastLooksUpAgain(t) ==
    /\ t.kind = "message" /\ t.pc = "broadcast"
    /\ out' = IF ~Registered(t.ws) THEN <<>>
              ELSE IF t.connectionInfo.isAdmin
              THEN ForEachSend({d \in DOMAIN connections :
                           AdminMessageTarget(connections[d], t.connectionInfo, t.messageData)},
                       "message", t.message)
              ELSE ForEachSend({d \in DOMAIN connections :
                           UserMessageTarget(connections[d], t.connectionInfo)},
                       "message", t.message)
    /\ tasks' = Finish(t)
    /\ step' = [op |-> t.pc, ok |-> TRUE, task |-> t]
    /\ UNCHANGED <<readyState, connections, store, now, sentOffline>>
    /\ dashboardOnlineUsers' = Deliver(dashboardOnlineUsers, out')
    /\ dashboardUsers' = DeliverUsers(dashboardUsers, out', connections')

\* After the await: the fan-out loop over the registry as it is now.
MessageBroadcast(t) ==
    /\ t.kind = "message" /\ t.pc = "broadcast"
    /\ out' = IF t.connectionInfo.isAdmin
              THEN ForEachSend({d \in DOMAIN connections :
                           AdminMessageTarget(connections[d], t.connectionInfo, t.messageData)},
                       "message", t.message)
              ELSE ForEachSend({d \in DOMAIN connections :
                           UserMessageTarget(connections[d], t.connectionInfo)},
                       "message", t.message)
    /\ tasks' = Finish(t)
    /\ step' = [op |-> t.pc, ok |-> TRUE, task |-> t]
    /\ UNCHANGED <<readyState, connections, store, now, sentOffline>>
    /\ dashboardOnlineUsers' = Deliver(dashboardOnlineUsers, out')
    /\ dashboardUsers' = DeliverUsers(dashboardUsers, out', connections')

\* ---------------------------------------------------------- case 'typing'
Typing(c, typingData) ==
    /\ readyState[c] = "OPEN"
    /\ out' = IF ~Registered(c) THEN <<>>
              ELSE IF connections[c].isAdmin
              THEN ForEachSend({d \in DOMAIN connections :
                           AdminTypingTarget(connections[d], typingData)},
                       "typing", [username |-> connections[c].username,
                                  isTyping |-> typingData.isTyping])
              ELSE ForEachSend({d \in DOMAIN connections : IsAdminTarget(connections[d])},
                       "typing", [username |-> connections[c].username,
                                  isTyping |-> typingData.isTyping,
                                  roomId |-> connections[c].roomId])
    /\ step' = [op |-> "typing", ws |-> c, data |-> typingData]
    /\ UNCHANGED <<readyState, connections, store, tasks, now, sentOffline>>
    /\ dashboardOnlineUsers' = Deliver(dashboardOnlineUsers, out')
    /\ dashboardUsers' = DeliverUsers(dashboardUsers, out', connections')

\* ------------------------------------------------------ case 'markAsRead'
\* Variant: markMessagesAsRead is issued without looking the connection up.
MarkAsReadUnguarded(c, readData) ==
    /\ readyState[c] = "OPEN"
    /\ step' = [op |-> "markAsRead", ws |-> c, data |-> readData]
    /\ out' = <<>>
    /\ NumTasks < MaxTasks
    /\ TasksOfKind("markAsRead") = 0
    /\ tasks' = Spawn([kind |-> "markAsRead", pc |-> "markMessagesAsRead", ws |-> c,
                       roomId |-> readData.roomId,
                       username |-> IF Registered(c) THEN connections[c].username
                                    ELSE Undefined])
    /\ UNCHANGED <<readyState, connections, store, now, sentOffline>>
    /\ dashboardOnlineUsers' = Deliver(dashboardOnlineUsers, out')
    /\ dashboardUsers' = DeliverUsers(dashboardUsers, out', connections')

MarkAsRead(c, readData) ==
    /\ readyState[c] = "OPEN"
    /\ step' = [op |-> "markAsRead", ws |-> c, data |-> readData]
    /\ out' = <<>>
    /\ IF Registered(c)
       THEN /\ NumTasks < MaxTasks
            /\ TasksOfKind("markAsRead") = 0
            /\ tasks' = Spawn([kind |-> "markAsRead", pc |-> "markMessagesAsRead", ws |-> c,
                               roomId |-> readData.roomId,
                               username |-> connections[c].username])
       ELSE UNCHANGED tasks
    /\ UNCHANGED <<readyState, connections, store, now, sentOffline>>
    /\ dashboardOnlineUsers' = Deliver(dashboardOnlineUsers, out')
    /\ dashboardUsers' = DeliverUsers(dashboardUsers, out', connections')

MarkAsReadMarkMessagesAsRead(t) ==
    /\ t.kind = "markAsRead" /\ t.pc = "markMessagesAsRead"
    /\ messages' = MarkMessagesAsRead(messages, t.roomId, t.username)
    /\ tasks' = Finish(t)
    /\ step' = [op |-> t.pc, ok |-> TRUE, task |-> t, before |-> messages]
    /\ out' = <<>>
    /\ UNCHANGED <<readyState, connections, users, onlineUsers, now, sentOffline>>
    /\ dashboardOnlineUsers' = Deliver(dashboardOnlineUsers, out')
    /\ dashboardUsers' = DeliverUsers(dashboardUsers, out', connections')

\* ---------------------------------------------------------- ws 'close'
\* The transport closes; the close handler runs up to its await.
Close(c) ==
    /\ readyState[c] = "OPEN"
    /\ Cardinality({d \in Conns : readyState[d] = "CLOSED"}) < MaxCloses
    /\ readyState' = [readyState EXCEPT ![c] = "CLOSED"]
    /\ step' = [op |-> "close", ws |-> c]
    /\ out' = <<>>
    /\ IF Registered(c)
       THEN /\ NumTasks < MaxTasks
            /\ tasks' = Spawn([kind |-> "close", pc |-> "removeOnlineUser", ws |-> c,
                               connectionInfo |-> connections[c],
                               socketId |-> SocketId(connections[c].username, now)])
       ELSE UNCHANGED tasks
    /\ UNCHANGED <<connections, store, now, sentOffline>>
    /\ dashboardOnlineUsers' = Deliver(dashboardOnlineUsers, out')
    /\ dashboardUsers' = DeliverUsers(dashboardUsers, out', connections')

\* removeOnlineUser is awaited outside any try: a rejection ends the handler.
CloseRemoveOnlineUser(t) ==
    /\ t.kind = "close" /\ t.pc = "removeOnlineUser"
    /\ onlineUsers' = RemoveOnlineUser(onlineUsers, t.socketId)
    /\ tasks' = Resume(t, [t EXCEPT !.pc = "userLeft"])
    /\ step' = [op |-> t.pc, ok |-> TRUE, task |-> t]
    /\ out' = <<>>
    /\ UNCHANGED <<readyState, connections, users, messages, now, sentOffline>>
    /\ dashboardOnlineUsers' = Deliver(dashboardOnlineUsers, out')
    /\ dashboardUsers' = DeliverUsers(dashboardUsers, out', connections')

\* The rejection of removeOnlineUser is an unhandled promise rejection (the
\* close handler has no try). StoreFails is the runtime that only warns; this
\* is the runtime that terminates the process: the registry and the suspended
\* handlers are gone, every socket is closed, the tables remain.
ProcessExit(t) ==
    /\ t.kind = "close" /\ t.pc = "removeOnlineUser"
    /\ readyState' = [c \in Conns |-> IF readyState[c] = "NONE" THEN "NONE" ELSE "CLOSED"]
    /\ connections' = <<>>
    /\ tasks' = EmptyBag
    /\ step' = [op |-> "exit", task |-> t]
    /\ out' = <<>>
    /\ UNCHANGED <<store, now, sentOffline>>
    /\ dashboardOnlineUsers' = Deliver(dashboardOnlineUsers, out')
    /\ dashboardUsers' = DeliverUsers(dashboardUsers, out', connections')

\* After the await: notify the admins of a user's leaving, connections.delete.
CloseUserLeft(t) ==
    /\ t.kind = "close" /\ t.pc = "userLeft"
    /\ out' = IF ~t.connectionInfo.isAdmin
              THEN ForEachSend({d \in DOMAIN connections : IsAdminTarget(connections[d])}, "userLeft",
                               [username |-> t.connectionInfo.username,
                                roomId |-> t.connectionInfo.roomId])
              ELSE <<>>
    /\ connections' = ConnectionsDelete(t.ws)
    /\ tasks' = Finish(t)
    /\ step' = [op |-> t.pc, ok |-> TRUE, task |-> t]
    /\ UNCHANGED <<readyState, store, now, sentOffline>>
    /\ dashboardOnlineUsers' = Deliver(dashboardOnlineUsers, out')
    /\ dashboardUsers' = DeliverUsers(dashboardUsers, out', connections')

\* ------------------------------------------- dashboard: handleUserSelect
\* The admin clicks a conversation other than the open one. Synchronous part:
\* setSelectedUser, then fetch of the room's messages. `socket` in the handler
\* is the connection of the render in which the click happened.
HandleUserSelect(c, username) ==
    /\ readyState[c] = "OPEN"
    /\ Registered(c) /\ connections[c].isAdmin
    /\ dashboardOnlineUsers[c] # {}
    /\ SelectedUser(c) # username
    /\ NumTasks < MaxTasks
    /\ TasksOfKind("select") = 0
    /\ tasks' = Spawn([kind |-> "select", pc |-> "fetchMessages", ws |-> c,
                       username |-> username, cleanup |-> FALSE,
                       stored |-> Len(messages)])
    /\ step' = [op |-> "handleUserSelect", ws |-> c, data |-> username]
    /\ out' = <<>>
    /\ UNCHANGED <<readyState, connections, store, now, sentOffline>>
    /\ dashboardOnlineUsers' = Deliver(dashboardOnlineUsers, out')
    /\ dashboardUsers' = DeliverUsers(dashboardUsers, out', connections')

\* selectedUser has changed, so the WebSocket effect is run again: its cleanup
\* closes the connection (the server's close handler starts), and the page
\* connects anew.
EffectCleanup(t) ==
    /\ t.kind = "select" /\ ~t.cleanup
    /\ readyState[t.ws] = "OPEN"
    /\ Cardinality({d \in Conns : readyState[d] = "CLOSED"}) < MaxCloses
    /\ readyState' = [readyState EXCEPT ![t.ws] = "CLOSED"]
    /\ step' = [op |-> "close", ws |-> t.ws]
    /\ out' = <<>>
    /\ LET rest == IF t.pc = "sent" THEN Finish(t)
                   ELSE Resume(t, [t EXCEPT !.cleanup = TRUE])
       IN  IF Registered(t.ws)
           THEN /\ BagCardinality(rest) < MaxTasks
                /\ tasks' = rest (+) SetToBag({[kind |-> "close", pc |-> "removeOnlineUser",
                                                ws |-> t.ws,
                                                connectionInfo |-> connections[t.ws],
                                                socketId |-> SocketId(connections[t.ws].username,
                                                                      now)]})
           ELSE tasks' = rest
    /\ UNCHANGED <<connections, store, now, sentOffline>>
    /\ dashboardOnlineUsers' = Deliver(dashboardOnlineUsers, out')
    /\ dashboardUsers' = DeliverUsers(dashboardUsers, out', connections')

\* The fetch has answered: socket.send of markAsRead for the selected room on
\* the handler's socket. A WebSocket that is closing or closed discards the
\* frame; an open one carries it to the server's markAsRead case.
SelectMarkAsRead(t) ==
    /\ t.kind = "select" /\ t.pc = "fetchMessages"
    /\ LET rest == IF t.cleanup THEN Finish(t) ELSE Resume(t, [t EXCEPT !.pc = "sent"])
           delivered == readyState[t.ws] = "OPEN" /\ Registered(t.ws)
       IN  /\ tasks' = IF delivered
                       THEN rest (+) SetToBag({[kind |-> "markAsRead",
                                                pc |-> "markMessagesAsRead", ws |-> t.ws,
                                                roomId |-> t.username,
                                                username |-> connections[t.ws].username]})
                       ELSE rest
           /\ delivered => BagCardinality(rest) < MaxTasks
           /\ step' = [op |-> "selectMarkAsRead", ws |-> t.ws, task |-> t,
                       delivered |-> delivered]
    /\ out' = <<>>
    /\ UNCHANGED <<readyState, connections, store, now, sentOffline>>
    /\ dashboardOnlineUsers' = Deliver(dashboardOnlineUsers, out')
    /\ dashboardUsers' = DeliverUsers(dashboardUsers, out', connections')

\* ------------------------------------------------------------- the clock
Tick ==
    /\ now < MaxTime
    /\ now' = now + 1
    /\ step' = [op |-> "tick"]
    /\ out' = <<>>
    /\ UNCHANGED <<readyState, connections, store, tasks, sentOffline>>
    /\ dashboardOnlineUsers' = Deliver(dashboardOnlineUsers, out')
    /\ dashboardUsers' = DeliverUsers(dashboardUsers, out', connections')

\* The full lifecycle, from the state registerRoutes leaves behind.
Next ==
    \/ \E c \in Conns : Connection(c)
    \/ \E c \in Conns : \E data \in JoinPayloads(c) \cup MalformedJoinPayloads : Join(c, data)
    \/ \E c \in Conns, frame \in MalformedFrames : Malformed(c, frame)
    \/ \E c \in Conns, messageData \in MessagePayloads : Message(c, messageData)
    \/ \E c \in Conns, typingData \in TypingPayloads : Typing(c, typingData)
    \/ \E c \in Conns, readData \in MarkAsReadPayloads : MarkAsRead(c, readData)
    \/ \E c \in Conns : Close(c)
    \/ \E t \in TaskSet : JoinGetUserByUsername(t)
    \/ \E t \in TaskSet : JoinCreateUser(t)
    \/ \E t \in TaskSet : JoinAddOnlineUser(t)
    \/ \E t \in TaskSet : JoinGetAllUsersWithMessages(t)
    \/ \E t \in TaskSet : JoinGetAllOnlineUsers(t)
    \/ \E t \in TaskSet : JoinGetMessagesBetweenUsers(t)
    \/ \E t \in TaskSet : JoinAdminJoined(t)
    \/ \E t \in TaskSet : JoinUserJoined(t)
    \/ \E t \in TaskSet : MessageCreateMessage(t)
    \/ \E t \in TaskSet : MessageBroadcast(t)
    \/ \E t \in TaskSet : MarkAsReadMarkMessagesAsRead(t)
    \/ \E t \in TaskSet : CloseRemoveOnlineUser(t)
    \/ \E t \in TaskSet : CloseUserLeft(t)
    \/ \E t \in TaskSet : StoreFails(t)
    \/ \E t \in TaskSet : ProcessExit(t)
    \/ Tick

Spec == Init /\ [][Next]_vars

\* ---------------------------------------------------- joined sessions
\* The state after the connections of J have joined one after the other, in
\* the order of their numbers and within one clock tick, each with one of its
\* identities, and every join handler has run to its end; the other
\* connections are open and have not joined.
RECURSIVE UsersAfterJoins(_, _)
UsersAfterJoins(id, k) ==
    IF k = 0 THEN {}
    ELSE LET before == UsersAfterJoins(id, k - 1)
         IN  IF k \in DOMAIN id /\ GetUserByUsername(before, id[k].username) = {}
             THEN before \cup {[username |-> id[k].username, isAdmin |-> id[k].isAdmin]}
             ELSE before

OnlineAfterJoins(id) ==
    LET all == [c \in 1..MaxConns |-> c]
        sel == SelectSeq(all, LAMBDA c : c \in DOMAIN id)
    IN  [k \in 1..Len(sel) |->
            [username |-> id[sel[k]].username, roomId |-> id[sel[k]].roomId,
             socketId |-> SocketId(id[sel[k]].username, 0), isAdmin |-> id[sel[k]].isAdmin]]

Identities == UNION {JoinPayloads(c) : c \in Conns}

\* The dashboard's list after the newUser events of the users joining as
\* connections d, d + 1, ...
RECURSIVE AfterNewUsers(_, _, _)
AfterNewUsers(list, id, d) ==
    IF d > MaxConns THEN list
    ELSE AfterNewUsers(
             IF d \in DOMAIN id /\ ~id[d].isAdmin
             THEN ClientOnMessage(list, [type |-> "newUser",
                                         data |-> [username |-> id[d].username]])
             ELSE list,
             id, d + 1)

\* The dashboard's index after the newUser events of the users joining as
\* connections d, d + 1, ...
RECURSIVE IndexAfterNewUsers(_, _, _)
IndexAfterNewUsers(list, id, d) ==
    IF d > MaxConns THEN list
    ELSE IndexAfterNewUsers(
             IF d \in DOMAIN id /\ ~id[d].isAdmin
             THEN ClientSetUsers(list, [type |-> "newUser",
                                        data |-> [username |-> id[d].username,
                                                  roomId |-> id[d].roomId]],
                                 NoSelection)
             ELSE list,
             id, d + 1)

\* An admin's client got an empty index in adminJoined (no message is stored
\* yet) and a newUser for every user who joined later.
DashboardUsersAfterJoins(id) ==
    [c \in Conns |->
        IF c \in DOMAIN id /\ id[c].isAdmin
        THEN IndexAfterNewUsers(<<>>, id, c + 1)
        ELSE <<>>]

\* An admin's client got the presence rows of the joins up to its own in
\* adminJoined and a newUser for every user who joined later.
DashboardAfterJoins(id) ==
    [c \in Conns |->
        IF c \in DOMAIN id /\ id[c].isAdmin
        THEN AfterNewUsers({[username |-> id[d].username, isAdmin |-> id[d].isAdmin] :
                               d \in {e \in DOMAIN id : e <= c}},
                           id, c + 1)
        ELSE {}]

JoinedSessions(J, id) ==
    /\ \A c \in J : id[c] \in JoinPayloads(c)
    /\ readyState = [c \in Conns |-> "OPEN"]
    /\ connections = id
    /\ users = UsersAfterJoins(id, MaxConns)
    /\ messages = <<>>
    /\ onlineUsers = OnlineAfterJoins(id)
    /\ tasks = EmptyBag
    /\ now = 0
    /\ step = [op |-> "init"]
    /\ out = <<>>
    /\ sentOffline = {}
    /\ dashboardOnlineUsers = DashboardAfterJoins(id)
    /\ dashboardUsers = DashboardUsersAfterJoins(id)

\* Everyone has joined, or everyone but the last connection.
InitJoined ==
    \E J \in {Conns, Conns \ {MaxConns}} :
        \E id \in [J -> Identities] : JoinedSessions(J, id)

\* The router and the close path over joined sessions.
NextRouter ==
    \/ \E c \in Conns, messageData \in MessagePayloads : Message(c, messageData)
    \/ \E c \in Conns, readData \in MarkAsReadPayloads : MarkAsRead(c, readData)
    \/ \E c \in Conns : Close(c)
    \/ \E t \in TaskSet : MessageCreateMessage(t)
    \/ \E t \in TaskSet : MessageBroadcast(t)
    \/ \E t \in TaskSet : MarkAsReadMarkMessagesAsRead(t)
    \/ \E t \in TaskSet : CloseRemoveOnlineUser(t)
    \/ \E t \in TaskSet : CloseUserLeft(t)
    \/ \E t \in TaskSet : StoreFails(t)
    \/ \E t \in TaskSet : ProcessExit(t)

RouterSpec == InitJoined /\ [][NextRouter]_vars

\* The router and the typing broadcaster over joined sessions.
NextBroadcast ==
    \/ \E c \in Conns, messageData \in MessagePayloads : Message(c, messageData)
    \/ \E c \in Conns, typingData \in TypingPayloads : Typing(c, typingData)
    \/ \E c \in Conns, readData \in MarkAsReadPayloads : MarkAsRead(c, readData)
    \/ \E c \in Conns : Close(c)
    \/ \E t \in TaskSet : MessageCreateMessage(t)
    \/ \E t \in TaskSet : MessageBroadcast(t)
    \/ \E t \in TaskSet : MarkAsReadMarkMessagesAsRead(t)
    \/ \E t \in TaskSet : CloseRemoveOnlineUser(t)
    \/ \E t \in TaskSet : CloseUserLeft(t)
    \/ \E t \in TaskSet : StoreFails(t)
    \/ \E t \in TaskSet : ProcessExit(t)

BroadcastSpec == InitJoined /\ [][NextBroadcast]_vars

\* Users have joined and no admin is connected: connection 1 is open and has
\* not joined yet.
InitUsersJoined ==
    \E id \in [Conns \ {1} -> Identities] :
        /\ \A c \in DOMAIN id : ~id[c].isAdmin
        /\ JoinedSessions(Conns \ {1}, id)

\* Messages while the admin is away, then a join and its bootstrap.
NextBootstrap ==
    \/ \E c \in Conns : \E data \in JoinPayloads(c) : ~Registered(c) /\ Join(c, data)
    \/ \E c \in Conns, messageData \in MessagePayloads : Message(c, messageData)
    \/ \E c \in Conns, readData \in MarkAsReadPayloads : MarkAsRead(c, readData)
    \/ \E t \in TaskSet : JoinGetUserByUsername(t)
    \/ \E t \in TaskSet : JoinCreateUser(t)
    \/ \E t \in TaskSet : JoinAddOnlineUser(t)
    \/ \E t \in TaskSet : JoinGetAllUsersWithMessages(t)
    \/ \E t \in TaskSet : JoinGetAllOnlineUsers(t)
    \/ \E t \in TaskSet : JoinAdminJoined(t)
    \/ \E t \in TaskSet : MessageCreateMessage(t)
    \/ \E t \in TaskSet : MessageBroadcast(t)
    \/ \E t \in TaskSet : MarkAsReadMarkMessagesAsRead(t)
    \/ \E t \in TaskSet : StoreFails(t)
    \/ Tick

BootstrapSpec == InitUsersJoined /\ [][NextBootstrap]_vars

\* Sessions from the first connection on: joins, malformed ones included.
NextJoin ==
    \/ \E c \in Conns : Connection(c)
    \/ \E c \in Conns : \E data \in JoinPayloads(c) \cup MalformedJoinPayloads : Join(c, data)
    \/ \E c \in Conns, frame \in MalformedFrames : Malformed(c, frame)
    \/ \E t \in TaskSet : JoinGetUserByUsername(t)
    \/ \E t \in TaskSet : JoinCreateUser(t)
    \/ \E t \in TaskSet : JoinAddOnlineUser(t)
    \/ \E t \in TaskSet : JoinGetAllUsersWithMessages(t)
    \/ \E t \in TaskSet : JoinGetAllOnlineUsers(t)
    \/ \E t \in TaskSet : JoinGetMessagesBetweenUsers(t)
    \/ \E t \in TaskSet : JoinAdminJoined(t)
    \/ \E t \in TaskSet : JoinUserJoined(t)
    \/ \E t \in TaskSet : StoreFails(t)

JoinSpec == Init /\ [][NextJoin]_vars

\* The close path over joined sessions.
NextClose ==
    \/ \E c \in Conns : Close(c)
    \/ \E t \in TaskSet : CloseRemoveOnlineUser(t)
    \/ \E t \in TaskSet : CloseUserLeft(t)
    \/ \E t \in TaskSet : StoreFails(t)
    \/ \E t \in TaskSet : ProcessExit(t)
    \/ Tick

CloseSpec == InitJoined /\ [][NextClose]_vars

\* The event loop runs every handler whose awaited call has settled.
CloseFairness ==
    /\ WF_vars(\E t \in TaskSet : CloseRemoveOnlineUser(t) \/ StoreFails(t) \/ ProcessExit(t))
    /\ WF_vars(\E t \in TaskSet : CloseUserLeft(t))

CloseFairSpec == InitJoined /\ [][NextClose]_vars /\ CloseFairness

\* Everyone but the last connection has joined; the last one is open.
InitOneToCome ==
    \E id \in [Conns \ {MaxConns} -> Identities] : JoinedSessions(Conns \ {MaxConns}, id)

\* The join of the last connection and the router: someone who comes (a user
\* already connected in another tab, a new user, an admin) while conversations
\* are going on.
NextSession ==
    \/ \E data \in JoinPayloads(MaxConns) : Join(MaxConns, data)
    \/ \E c \in Conns, messageData \in MessagePayloads : Message(c, messageData)
    \/ \E t \in TaskSet : JoinGetUserByUsername(t)
    \/ \E t \in TaskSet : JoinCreateUser(t)
    \/ \E t \in TaskSet : JoinAddOnlineUser(t)
    \/ \E t \in TaskSet : JoinGetAllUsersWithMessages(t)
    \/ \E t \in TaskSet : JoinGetAllOnlineUsers(t)
    \/ \E t \in TaskSet : JoinGetMessagesBetweenUsers(t)
    \/ \E t \in TaskSet : JoinAdminJoined(t)
    \/ \E t \in TaskSet : JoinUserJoined(t)
    \/ \E t \in TaskSet : MessageCreateMessage(t)
    \/ \E t \in TaskSet : MessageBroadcast(t)
    \/ \E t \in TaskSet : StoreFails(t)

SessionSpec == InitOneToCome /\ [][NextSession]_vars

\* The dashboard's conversation list in use: users write, the admin opens a
\* conversation and the page reconnects; the store answers every call.
NextSelect ==
    \/ \E c \in Conns, messageData \in MessagePayloads : Message(c, messageData)
    \/ \E c \in Conns, u \in RoomIds : HandleUserSelect(c, u)
    \/ \E data \in {JoinPayload("admin", TRUE)} : Join(MaxConns, data)
    \/ \E t \in TaskSet : EffectCleanup(t)
    \/ \E t \in TaskSet : SelectMarkAsRead(t)
    \/ \E t \in TaskSet : JoinGetUserByUsername(t)
    \/ \E t \in TaskSet : JoinAddOnlineUser(t)
    \/ \E t \in TaskSet : JoinGetAllUsersWithMessages(t)
    \/ \E t \in TaskSet : JoinGetAllOnlineUsers(t)
    \/ \E t \in TaskSet : JoinAdminJoined(t)
    \/ \E t \in TaskSet : MessageCreateMessage(t)
    \/ \E t \in TaskSet : MessageBroadcast(t)
    \/ \E t \in TaskSet : MarkAsReadMarkMessagesAsRead(t)
    \/ \E t \in TaskSet : CloseRemoveOnlineUser(t)
    \/ \E t \in TaskSet : CloseUserLeft(t)

SelectSpec == InitOneToCome /\ [][NextSelect]_vars

\* The router with a store that answers every call, while connections may
\* close.
NextDelivery ==
    \/ \E c \in Conns, messageData \in MessagePayloads : Message(c, messageData)
    \/ \E c \in Conns : Close(c)
    \/ \E t \in TaskSet : MessageCreateMessage(t)
    \/ \E t \in TaskSet : MessageBroadcast(t)
    \/ \E t \in TaskSet : CloseRemoveOnlineUser(t)
    \/ \E t \in TaskSet : CloseUserLeft(t)

\* The store answers every call it was sent, and the event loop runs the
\* handler whose awaited call has been answered.
DeliveryFairness ==
    /\ WF_vars(\E t \in TaskSet : MessageCreateMessage(t))
    /\ WF_vars(\E t \in TaskSet : MessageBroadcast(t))
    /\ WF_vars(\E t \in TaskSet : CloseRemoveOnlineUser(t))
    /\ WF_vars(\E t \in TaskSet : CloseUserLeft(t))

DeliverySpec == InitOneToCome /\ [][NextDelivery]_vars /\ DeliveryFairness

\* One more connection joins while any connection may close; the store
\* answers every call.
NextLeave ==
    \/ \E data \in JoinPayloads(MaxConns) : Join(MaxConns, data)
    \/ \E c \in Conns : Close(c)
    \/ \E t \in TaskSet : JoinGetUserByUsername(t)
    \/ \E t \in TaskSet : JoinCreateUser(t)
    \/ \E t \in TaskSet : JoinAddOnlineUser(t)
    \/ \E t \in TaskSet : JoinGetAllUsersWithMessages(t)
    \/ \E t \in TaskSet : JoinGetAllOnlineUsers(t)
    \/ \E t \in TaskSet : JoinGetMessagesBetweenUsers(t)
    \/ \E t \in TaskSet : JoinAdminJoined(t)
    \/ \E t \in TaskSet : JoinUserJoined(t)
    \/ \E t \in TaskSet : CloseRemoveOnlineUser(t)
    \/ \E t \in TaskSet : CloseUserLeft(t)

LeaveSpec == InitOneToCome /\ [][NextLeave]_vars

\* Message events whose payloads tell the order of sending: the first event
\* accepted names "admin" as its target, every later one names none. (A user's
\* targetUsername is not read by the router.)
PayloadsInOrder ==
    {messageData \in MessagePayloads :
        messageData.targetUsername =
            IF Len(messages) + TasksOfKind("message") = 0 THEN "admin" ELSE Undefined}

\* The message case alone, on joined connections that stay open, with a store
\* that answers every call.
NextOrder ==
    \/ \E c \in Conns, messageData \in PayloadsInOrder : Message(c, messageData)
    \/ \E t \in TaskSet : MessageCreateMessage(t)
    \/ \E t \in TaskSet : MessageBroadcast(t)

OrderSpec == InitOneToCome /\ [][NextOrder]_vars

\* ------------------------------------------------ user chat: ws.onmessage
\* userJoined replaces the message list by the history of the event; message
\* appends to the list; other events leave it.
UserChatOnMessage(prev, event) ==
    CASE event.type = "userJoined" -> event.data.messages
      [] event.type = "message" -> Append(prev, event.data)
      [] OTHER -> prev

\* The message list of the chat page behind connection c after the events
\* `sends`, in the order of sending.
RECURSIVE UserChatMessages(_, _, _)
UserChatMessages(prev, sends, c) ==
    IF sends = <<>> THEN prev
    ELSE UserChatMessages(IF Head(sends).to = c THEN UserChatOnMessage(prev, Head(sends))
                          ELSE prev,
                          Tail(sends), c)

\* ====================================================== properties
\* How often the sends of the last step went to connection c.
Copies(c) == Cardinality({k \in 1..Len(out) : out[k].to = c})

Writable(c) == Registered(c) /\ readyState[c] = "OPEN"

\* C1: a user's message, once stored, is sent exactly once to every registered
\* and OPEN connection that is an admin or carries the sender's username, and to
\* no other connection; what is sent is the `message` event of that message.
C1_UserFanOut ==
    (step.op = "broadcast" /\ ~step.task.connectionInfo.isAdmin) =>
        /\ \A k \in 1..Len(out) : out[k].type = "message" /\ out[k].data = step.task.message
        /\ \A c \in Conns :
              Copies(c) = IF Writable(c)
                             /\ (connections[c].isAdmin
                                 \/ connections[c].username = step.task.connectionInfo.username)
                          THEN 1 ELSE 0

\* Two tabs of the sender and an admin connection each got one copy.
C1_Witness ==
    /\ step.op = "broadcast" /\ ~step.task.connectionInfo.isAdmin
    /\ Len(out) = 3
    /\ \E c, d \in Conns :
          /\ c # d /\ Copies(c) = 1 /\ Copies(d) = 1
          /\ ~connections[c].isAdmin /\ ~connections[d].isAdmin

\* C2: an admin's message with target T, once stored, is sent exactly once to
\* every registered and OPEN connection whose username is T or that is an admin
\* with the sender's username, and to no other connection.
C2_AdminFanOut ==
    (step.op = "broadcast" /\ step.task.connectionInfo.isAdmin) =>
        /\ \A k \in 1..Len(out) : out[k].type = "message" /\ out[k].data = step.task.message
        /\ \A c \in Conns :
              Copies(c) = IF Writable(c)
                             /\ (connections[c].username = step.task.messageData.targetUsername
                                 \/ (connections[c].isAdmin
                                     /\ connections[c].username
                                            = step.task.connectionInfo.username))
                          THEN 1 ELSE 0

\* The target and the sending admin got a copy; another open session did not.
C2_Witness ==
    /\ step.op = "broadcast" /\ step.task.connectionInfo.isAdmin
    /\ Copies(step.task.ws) = 1
    /\ \E c \in Conns : /\ Copies(c) = 1 /\ ~connections[c].isAdmin
                        /\ connections[c].username = step.task.messageData.targetUsername
    /\ \E c \in Conns : Writable(c) /\ Copies(c) = 0

\* The user a routed event belongs to: its author if a user wrote it, its
\* target if an admin did.
EventUser(info, data) == IF info.isAdmin THEN data.targetUsername ELSE info.username

\* C3: a `message` or `typing` event of user U's conversation (written by U, or
\* by an admin with target U) never goes to a connection whose identity is a
\* user other than U.
C3_Privacy ==
    /\ step.op = "broadcast" =>
          \A k \in 1..Len(out) :
              \/ connections[out[k].to].isAdmin
              \/ connections[out[k].to].username
                     = EventUser(step.task.connectionInfo, step.task.messageData)
    /\ (step.op = "typing" /\ Registered(step.ws)) =>
          \A k \in 1..Len(out) :
              \/ connections[out[k].to].isAdmin
              \/ connections[out[k].to].username
                     = EventUser(connections[step.ws], step.data)

\* An admin's typing event for alice went out while bob's session was open.
C3_Witness ==
    /\ step.op = "typing" /\ Registered(step.ws) /\ connections[step.ws].isAdmin
    /\ out # <<>>
    /\ \E c \in Conns : Writable(c) /\ ~connections[c].isAdmin
                        /\ connections[c].username # step.data.targetUsername

\* The row the last createMessage step inserted.
Inserted == messages[Len(messages)]

\* C4: a stored message of a user has receiverUsername "admin"; a stored
\* message of an admin has the event's targetUsername as receiverUsername, and
\* that is never "admin".
C4_Receiver ==
    (step.op = "createMessage" /\ step.ok) =>
        IF step.task.connectionInfo.isAdmin
        THEN /\ Inserted.receiverUsername = step.task.messageData.targetUsername
             /\ Inserted.receiverUsername # "admin"
        ELSE Inserted.receiverUsername = "admin"

\* C5: the senderUsername of the stored and of the delivered message is the
\* username the registry holds for the originating connection when the event is
\* handled, whatever username the payload carries.
C5_Sender ==
    /\ step.op = "message" =>
          \A t \in TaskSet :
              (t.kind = "message" /\ t.ws = step.ws) =>
                  /\ Registered(step.ws)
                  /\ t.connectionInfo = connections[step.ws]
    /\ (step.op = "createMessage" /\ step.ok) =>
          Inserted.senderUsername = step.task.connectionInfo.username
    /\ step.op = "broadcast" =>
          \A k \in 1..Len(out) :
              out[k].data.senderUsername = step.task.connectionInfo.username

\* A message was stored whose payload named somebody else.
C5_Witness ==
    /\ step.op = "createMessage" /\ step.ok
    /\ step.task.messageData.username # step.task.connectionInfo.username
    /\ Inserted.senderUsername = step.task.connectionInfo.username

\* C6: an accepted message is stored once, and getMessagesBetweenUsers(user,
\* "admin") for the user of the conversation returns it exactly once with the
\* same body, sender and receiver, whether a user or an admin wrote it.
C6_RoundTrip ==
    (step.op = "createMessage" /\ step.ok) =>
        LET user == EventUser(step.task.connectionInfo, step.task.messageData)
            fetched == GetMessagesBetweenUsers(messages, user, "admin")
        IN  /\ Cardinality({i \in 1..Len(messages) : messages[i].id = Inserted.id}) = 1
            /\ Cardinality({k \in 1..Len(fetched) :
                              /\ fetched[k].id = Inserted.id
                              /\ fetched[k].message = step.task.messageData.message
                              /\ fetched[k].senderUsername = step.task.connectionInfo.username
                              /\ fetched[k].receiverUsername = Inserted.receiverUsername}) = 1

\* A row without its isRead flag (markAsRead may set it at any time).
WithoutIsRead(m) == [f \in DOMAIN m \ {"isRead"} |-> m[f]]
Stored(m) == \E i \in 1..Len(messages) : WithoutIsRead(messages[i]) = WithoutIsRead(m)

\* Every `message` event sent carries the row its handler got from the store.
C7_DeliveredIsStored ==
    /\ \A t \in TaskSet : (t.kind = "message" /\ t.pc = "broadcast") => Stored(t.message)
    /\ \A k \in 1..Len(out) :
          out[k].type = "message" =>
              /\ step.op = "broadcast"
              /\ out[k].data = step.task.message
              /\ out[k].data.id >= 1
              /\ Stored(out[k].data)

\* A rejected createMessage ends the handler with nothing stored or sent.
C7_FailedWrite ==
    (step'.op = "createMessage" /\ ~step'.ok) =>
        /\ messages' = messages
        /\ out' = <<>>
        /\ tasks' = Finish(step'.task)

\* C7: a `message` event is sent only for a row the store has returned, and
\* carries that row (its id and timestamp included); a failed write stores
\* nothing and leads to no send.
C7_PersistThenDeliver == []C7_DeliveredIsStored /\ [][C7_FailedWrite]_vars

\* A stored message was delivered.
C7_Witness ==
    /\ step.op = "broadcast" /\ out # <<>>
    /\ Stored(out[1].data)

\* The messages of the conversation getAllUsersWithMessages files under u.
Conversation(u) ==
    {i \in 1..Len(messages) :
        \/ (messages[i].senderUsername = u /\ messages[i].receiverUsername = "admin")
        \/ (messages[i].senderUsername = "admin" /\ messages[i].receiverUsername = u)}

C9_Unidentified ==
    (step'.op \in {"message", "typing", "markAsRead"} /\ ~Registered(step'.ws)) =>
        /\ UNCHANGED <<users, messages, onlineUsers, connections, readyState, tasks>>
        /\ out' = <<>>

\* C9: a `message`, `typing` or `markAsRead` event on a connection without a
\* registry entry changes nothing: store, registry, suspended handlers and
\* readyState stay as they are and nothing is sent.
C9_UnidentifiedDropped == [][C9_Unidentified]_vars

\* An event arrived on an open connection that never joined.
C9_Witness ==
    /\ step.op \in {"message", "typing", "markAsRead"}
    /\ ~Registered(step.ws) /\ readyState[step.ws] = "OPEN"

\* A step that handles an admin's `message` event without targetUsername.
C10_MissingTarget ==
    (/\ step'.op = "message" /\ Registered(step'.ws)
     /\ connections[step'.ws].isAdmin
     /\ step'.data.targetUsername = Undefined) =>
        /\ UNCHANGED <<messages, connections, tasks>>
        /\ out' = <<>>

\* C10: an admin's `message` event without targetUsername is dropped: nothing
\* is stored (no handler is left to store it), nothing is sent, the registry is
\* unchanged.
C10_MissingTargetDropped == [][C10_MissingTarget]_vars

\* An admin's message without a target was handled.
C10_Witness ==
    /\ step.op = "message" /\ Registered(step.ws)
    /\ connections[step.ws].isAdmin
    /\ step.data.targetUsername = Undefined

\* A step that handles a frame that cannot be parsed, or a join without username.
C11_MalformedStep ==
    (\/ step'.op = "malformed"
     \/ (step'.op = "join" /\ ~IsString(step'.data.username))) =>
        /\ UNCHANGED <<connections, users, onlineUsers, messages, readyState>>
        /\ out' = <<>>

\* C11: an event that cannot be parsed or violates its payload schema, a join
\* included, has no effect: registry, users, presence rows and messages are
\* unchanged, nothing is sent, the connection stays open.
C11_MalformedDropped == [][C11_MalformedStep]_vars

Nameless(username) == username = "" \/ ~IsString(username)

\* C12: a join with an empty or missing username is rejected: no registry entry,
\* no user row and no presence row carries such a username, and no newUser
\* event announces one.
C12_NamelessJoinRejected ==
    /\ \A c \in DOMAIN connections : ~Nameless(connections[c].username)
    /\ \A u \in users : ~Nameless(u.username)
    /\ \A k \in 1..Len(onlineUsers) : ~Nameless(onlineUsers[k].username)
    /\ \A k \in 1..Len(out) : out[k].type = "newUser" => ~Nameless(out[k].data.username)

\* No handler is suspended.
Quiescent == tasks = EmptyBag

\* C13: once the handlers of the joins and closes have run, the registry has as
\* many admin entries as there are open connections that joined as admin.
C13_AdminCount ==
    Quiescent =>
        Cardinality({c \in DOMAIN connections : connections[c].isAdmin})
            = Cardinality({c \in Conns : Writable(c) /\ connections[c].isAdmin})

\* C14: a registered connection whose transport has closed is eventually out of
\* the registry, whatever the store answers, and a closed connection that is
\* out of the registry stays out.
C14_ClosedIsRemoved ==
    /\ \A c \in Conns :
          (readyState[c] = "CLOSED" /\ Registered(c)) ~> ~Registered(c)
    /\ [][\A c \in Conns :
              (readyState[c] = "CLOSED" /\ ~Registered(c)) => ~(c \in DOMAIN connections')]_vars

\* C15: when a connection's close has been processed, every presence row left
\* belongs to a username that still has an open joined connection.
C15_PresenceRemoved ==
    step.op = "userLeft" =>
        \A k \in 1..Len(onlineUsers) :
            \E c \in Conns : Writable(c) /\ connections[c].username = onlineUsers[k].username

\* The userLeft step of a closer: to every open admin connection if the closer
\* was a user, to nobody if it was an admin.
C16_UserLeftFanOut ==
    step.op = "userLeft" =>
        /\ \A k \in 1..Len(out) :
              /\ out[k].type = "userLeft"
              /\ out[k].data.username = step.task.connectionInfo.username
        /\ \A c \in Conns :
              Copies(c) = IF ~step.task.connectionInfo.isAdmin
                             /\ Writable(c) /\ connections[c].isAdmin
                          THEN 1 ELSE 0

\* C16: the close of a registered user connection leads to its userLeft being
\* sent to every open admin connection (unless no admin connection is open any
\* more); the close of an admin sends none.
C16_UserLeft ==
    /\ []C16_UserLeftFanOut
    /\ \A c \in Conns :
          (/\ step.op = "close" /\ step.ws = c
           /\ Registered(c) /\ ~connections[c].isAdmin)
              ~> ((step.op = "userLeft" /\ step.task.ws = c) \/ ~AdminOpen)

\* C17: when a close has been processed, the online list of every open
\* dashboard names the user of every open user connection, and every user it
\* lists has an open connection.
C17_OnlineWhileAnyTabOpen ==
    step.op = "userLeft" =>
        \A c \in Conns :
            (Writable(c) /\ connections[c].isAdmin) =>
                /\ \A d \in Conns :
                      (Writable(d) /\ ~connections[d].isAdmin) =>
                          \E u \in dashboardOnlineUsers[c] :
                              u.username = connections[d].username
                /\ \A u \in dashboardOnlineUsers[c] :
                      ~u.isAdmin =>
                          \E d \in Conns : Writable(d) /\ connections[d].username = u.username

\* presence is a prefix of the presence table that has the row of socketId.
PresenceListOf(presence, socketId) ==
    /\ Len(presence) <= Len(onlineUsers)
    /\ presence = SubSeq(onlineUsers, 1, Len(presence))
    /\ \E k \in 1..Len(presence) : presence[k].socketId = socketId

CopiesNext(c) == Cardinality({k \in 1..Len(out') : out'[k].to = c})

\* A typing step of a registered connection.
C19_TypingStep ==
    (step'.op = "typing" /\ Registered(step'.ws)) =>
        LET info == connections[step'.ws]
            typingData == step'.data
        IN  /\ UNCHANGED <<users, messages, onlineUsers, connections>>
            /\ \A k \in 1..Len(out') :
                  /\ out'[k].type = "typing"
                  /\ out'[k].data =
                         IF info.isAdmin
                         THEN [username |-> info.username, isTyping |-> typingData.isTyping]
                         ELSE [username |-> info.username, isTyping |-> typingData.isTyping,
                               roomId |-> info.roomId]
            /\ \A c \in Conns :
                  CopiesNext(c) =
                      IF /\ Writable(c)
                         /\ IF info.isAdmin
                            THEN connections[c].username = typingData.targetUsername
                            ELSE connections[c].isAdmin
                      THEN 1 ELSE 0

\* C19: a user's typing event goes to exactly the open admin connections with
\* {username, isTyping, roomId} of the sender, an admin's to exactly the open
\* connections named targetUsername; store and registry are unchanged.
C19_TypingRelay == [][C19_TypingStep]_vars

\* A user's typing event reached an admin.
C19_Witness ==
    /\ step.op = "typing" /\ Registered(step.ws) /\ ~connections[step.ws].isAdmin
    /\ out # <<>> /\ connections[out[1].to].isAdmin

\* A markMessagesAsRead step that the store executes.
C20_MarkStep ==
    (step'.op = "markMessagesAsRead" /\ step'.ok) =>
        /\ out' = <<>>
        /\ Len(messages') = Len(messages)
        /\ \A i \in 1..Len(messages) :
              /\ WithoutIsRead(messages'[i]) = WithoutIsRead(messages[i])
              /\ messages'[i].isRead =
                     IF /\ messages[i].roomId = step'.task.roomId
                        /\ messages[i].receiverUsername = step'.task.username
                     THEN TRUE ELSE messages[i].isRead

\* C20: markAsRead for room R by the connection registered as X sets isRead on
\* exactly the messages of room R addressed to X, changes no other message and
\* no other field, and sends nothing; X is the registry's username when the
\* event is handled.
C20_MarkAsRead ==
    /\ [][C20_MarkStep]_vars
    /\ [](step.op = "markAsRead" =>
            \A t \in TaskSet :
                (t.kind = "markAsRead" /\ t.ws = step.ws) =>
                    /\ Registered(step.ws)
                    /\ t.username = connections[step.ws].username
                    /\ t.roomId = step.data.roomId)

\* A message to the reader was marked; one the reader had sent in the same room
\* stayed unread.
C20_Witness ==
    /\ step.op = "markMessagesAsRead" /\ step.ok
    /\ \E i, j \in 1..Len(messages) :
          /\ messages[i].roomId = step.task.roomId
          /\ messages[i].receiverUsername = step.task.username
          /\ messages[i].isRead
          /\ messages[j].roomId = step.task.roomId
          /\ messages[j].senderUsername = step.task.username
          /\ messages[j].receiverUsername # step.task.username
          /\ ~messages[j].isRead

\* The entries of the conversation index computed from the store.
IndexOf(table) ==
    LET idx == GetAllUsersWithMessages(table)
    IN  {idx[k] : k \in 1..Len(idx)}

C22_MarkedRoomIsRead ==
    (step.op = "markMessagesAsRead" /\ step.ok /\ step.task.username = "admin") =>
        \A e \in IndexOf(messages) :
            e.username = step.task.roomId =>
                /\ e.unreadCount = 0
                /\ \E b \in IndexOf(step.before) :
                      /\ b.username = e.username
                      /\ WithoutIsRead(b.lastMessage) = WithoutIsRead(e.lastMessage)

\* The messages exchanged with "admin", and the party of one that is not "admin".
WithAdmin(table) ==
    {table[i] : i \in {j \in 1..Len(table) :
        table[j].receiverUsername = "admin" \/ table[j].senderUsername = "admin"}}

Parties(m) == {m.senderUsername, m.receiverUsername}

\* What the claim says of one entry of the index: its unreadCount and lastMessage.
EntryIsRight(e, table) ==
    /\ e.unreadCount = Cardinality({i \in 1..Len(table) :
                            /\ table[i].senderUsername = e.username
                            /\ table[i].receiverUsername = "admin"
                            /\ ~table[i].isRead})
    /\ e.lastMessage \in WithAdmin(table)
    /\ e.username \in Parties(e.lastMessage)
    /\ \A m \in WithAdmin(table) :
          e.username \in Parties(m) => m.timestamp <= e.lastMessage.timestamp

\* C23: the conversation index has exactly one entry per username other than
\* "admin" that is sender or receiver of a message exchanged with "admin"; the
\* entry's unreadCount is the number of that user's unread messages to "admin"
\* and its lastMessage is a latest message of that conversation.
C23_IndexPerUser ==
    LET idx == GetAllUsersWithMessages(messages)
        names == UNION {Parties(m) : m \in WithAdmin(messages)} \ {"admin"}
    IN  /\ {idx[k].username : k \in 1..Len(idx)} = names
        /\ Len(idx) = Cardinality(names)
        /\ \A k \in 1..Len(idx) : EntryIsRight(idx[k], messages)

\* The index but for the entry a message from "admin" to "admin" gets.
C23_IndexButAdminToAdmin ==
    LET idx == GetAllUsersWithMessages(messages)
        names == UNION {Parties(m) : m \in WithAdmin(messages)} \ {"admin"}
        self == IF \E m \in WithAdmin(messages) : Parties(m) = {"admin"}
                THEN {"admin"} ELSE {}
    IN  /\ {idx[k].username : k \in 1..Len(idx)} = names \cup self
        /\ Len(idx) = Cardinality(names \cup self)
        /\ \A k \in 1..Len(idx) : EntryIsRight(idx[k], messages)

\* A connection that leaves the open state does so in the step of its own
\* transport-level close.
C24_ClosedByTransportStep ==
    \A c \in Conns :
        (readyState[c] = "OPEN" /\ readyState'[c] # "OPEN") =>
            (step'.op = "close" /\ step'.ws = c)

\* C24: no inbound event and no persistence failure makes the server close or
\* terminate a connection: a connection leaves the open state only through its
\* transport-level close.
C24_OnlyTransportCloses == [][C24_ClosedByTransportStep]_vars

\* A join event on a connection that is in the registry and whose earlier join
\* has been handled to its end.
C25_SecondJoinStep ==
    (/\ step'.op = "join" /\ Registered(step'.ws) /\ tasks = EmptyBag
     /\ \E k \in 1..Len(onlineUsers) :
           onlineUsers[k].username = connections[step'.ws].username) =>
        /\ connections'[step'.ws] = connections[step'.ws]
        /\ tasks' = tasks
        /\ out' = <<>>

\* C25: a second join on a registered connection is a no-op: the registered
\* identity stays, and no handler is started that would add a presence record
\* or send a newUser notification.
C25_SecondJoinIsNoOp == [][C25_SecondJoinStep]_vars

\* C26: when a persistence step of a join fails, the connection is not left in
\* the registry; and a registered connection with no join of its own in flight
\* has a presence record.
C26_RegisteredOnlyIfJoined ==
    /\ (step.op \in StoreCalls /\ ~step.ok /\ step.task.kind = "join")
           => ~Registered(step.task.ws)
    /\ \A c \in DOMAIN connections :
          (\A t \in TaskSet : ~(t.kind = "join" /\ t.ws = c)) =>
              \E k \in 1..Len(onlineUsers) :
                  onlineUsers[k].username = connections[c].username

\* C27: every stored message between "admin" and a user has as roomId the
\* username of that user: the sender of a message to "admin", the receiver of
\* one from "admin", whatever roomId the payload carried.
C27_RoomIsTheUser ==
    \A i \in 1..Len(messages) :
        (messages[i].senderUsername = "admin") # (messages[i].receiverUsername = "admin") =>
        messages[i].roomId = IF messages[i].senderUsername = "admin"
                             THEN messages[i].receiverUsername
                             ELSE messages[i].senderUsername

\* The unreadCount a dashboard's index shows for username u, 0 when it has no
\* entry for u.
UnreadOf(list, u) ==
    IF \E k \in 1..Len(list) : list[k].username = u
    THEN list[CHOOSE k \in 1..Len(list) : list[k].username = u].unreadCount
    ELSE 0

EntryNames(list) == {list[k].username : k \in 1..Len(list)}

\* A `message` event between two different parties, handled by the dashboard
\* behind an admin connection.
C28_MessageStep ==
    \A k \in 1..Len(out') :
        (/\ out'[k].type = "message"
         /\ out'[k].data.senderUsername # out'[k].data.receiverUsername
         /\ out'[k].to \in DOMAIN connections
         /\ connections[out'[k].to].isAdmin) =>
            LET c == out'[k].to
                m == out'[k].data
                author == step'.task.connectionInfo
                user == IF author.isAdmin THEN m.receiverUsername ELSE m.senderUsername
                before == dashboardUsers[c]
                after == dashboardUsers'[c]
            IN  /\ \A u \in EntryNames(after) :
                      UnreadOf(after, u) > UnreadOf(before, u) =>
                          /\ UnreadOf(after, u) = UnreadOf(before, u) + 1
                          /\ u = user
                          /\ ~author.isAdmin
                          /\ SelectedUser(c) # user
                /\ author.isAdmin =>
                      (author.username \in EntryNames(after)
                           => author.username \in EntryNames(before))

\* C28: in the dashboard's index a `message` event increments unreadCount by 1
\* only for the entry of the non-admin party, only if the message is from a
\* user to the admin and that user's conversation is not the one open; a
\* message written by an admin, its own echo included, increments no
\* unreadCount and creates no entry under the admin's username.
C28_UnreadOnlyForUsers == [][C28_MessageStep]_vars

\* The lastMessage a dashboard's index shows for username u.
LastMessageOf(list, u) ==
    IF \E k \in 1..Len(list) : list[k].username = u
    THEN list[CHOOSE k \in 1..Len(list) : list[k].username = u].lastMessage
    ELSE NullMessage

\* A user's `message` event to "admin", handled by a dashboard that has had
\* its adminJoined bootstrap and whose index has a lastMessage for the entry
\* it updates.
C29_MessageStep ==
    \A k \in 1..Len(out') :
        (/\ out'[k].type = "message"
         /\ out'[k].data.receiverUsername = "admin"
         /\ out'[k].data.senderUsername # "admin"
         /\ out'[k].to \in DOMAIN connections
         /\ connections[out'[k].to].isAdmin
         /\ dashboardOnlineUsers[out'[k].to] # {}) =>
            LET c == out'[k].to
                m == out'[k].data
            IN  \A u \in EntryNames(dashboardUsers[c]) :
                    LET old == LastMessageOf(dashboardUsers[c], u)
                        new == LastMessageOf(dashboardUsers'[c], u)
                    IN  (old.id # 0 /\ new # old) => m.timestamp >= old.timestamp

\* C29: the dashboard replaces an entry's lastMessage by a received message
\* only if that message's timestamp is not earlier than the stored one's.
C29_LastMessageIsLatest == [][C29_MessageStep]_vars

\* What an index shows of the users that have messages.
Shown(entries) ==
    {<<e.username, WithoutIsRead(e.lastMessage), e.unreadCount>> :
        e \in {x \in entries : x.lastMessage.id # 0}}

\* C30: when no handler is in flight, the index of every open dashboard that
\* has had its adminJoined bootstrap and has no conversation open shows, for
\* the users that have messages, the username, lastMessage and unreadCount
\* that getAllUsersWithMessages computes from the store.
C30_IndexAgreesWithScan ==
    Quiescent =>
        \A c \in Conns :
            (/\ Writable(c) /\ connections[c].isAdmin
             /\ dashboardOnlineUsers[c] # {}
             /\ SelectedUser(c) = NoSelection) =>
                Shown({dashboardUsers[c][k] : k \in 1..Len(dashboardUsers[c])})
                    = Shown(IndexOf(messages))

\* A newUser event handled by the dashboard behind an admin connection.
C31_NewUserStep ==
    \A k \in 1..Len(out') :
        (/\ out'[k].type = "newUser"
         /\ out'[k].to \in DOMAIN connections
         /\ connections[out'[k].to].isAdmin) =>
            LET before == dashboardUsers[out'[k].to]
                after == dashboardUsers'[out'[k].to]
                u == out'[k].data.username
            IN  /\ IF u \in EntryNames(before)
                   THEN after = before
                   ELSE after = Append(before, [username |-> u,
                                                roomId |-> out'[k].data.roomId,
                                                lastMessage |-> NullMessage,
                                                unreadCount |-> 0])
                /\ Cardinality({j \in 1..Len(after) : after[j].username = u}) = 1

\* C31: a newUser event for a username the dashboard's index does not list adds
\* a zero-state entry (lastMessage null, unreadCount 0); for a username it
\* lists, the entry's lastMessage and unreadCount stay and no second entry is
\* added.
C31_NewUserEntry == [][C31_NewUserStep]_vars

\* A newUser event reached a dashboard that lists the user with a message and
\* an unread count.
C31_Witness ==
    /\ step.op = "userJoined"
    /\ \E k \in 1..Len(out) :
          /\ out[k].type = "newUser"
          /\ out[k].to \in DOMAIN connections /\ connections[out[k].to].isAdmin
          /\ LastMessageOf(dashboardUsers[out[k].to], out[k].data.username).id # 0
          /\ UnreadOf(dashboardUsers[out[k].to], out[k].data.username) > 0

\* C32: once handleUserSelect has run for U's conversation to its markAsRead
\* and no handler is in flight, with no message stored since the click, the
\* conversation index computed from the store shows unreadCount 0 for U.
C32_SelectedIsRead ==
    (/\ step.op = "selectMarkAsRead"
     /\ Quiescent
     /\ Len(messages) = step.task.stored) =>
        \A e \in IndexOf(messages) :
            e.username = step.task.username => e.unreadCount = 0

\* The steps of a join as far as the role is concerned.
C33_RoleStep ==
    /\ users \subseteq users'
    /\ \A u, v \in users' : u.username = v.username => u = v
    /\ step'.op = "join" =>
          connections'[step'.ws] = [username |-> step'.data.username,
                                    isAdmin |-> step'.data.isAdmin,
                                    roomId |-> step'.data.roomId]
    /\ (/\ step'.op = "getUserByUsername" /\ step'.ok
        /\ GetUserByUsername(users, step'.task.username) # {}) =>
          /\ users' = users
          /\ \E t2 \in BagToSet(tasks') :
                /\ t2.kind = "join" /\ t2.ws = step'.task.ws
                /\ t2.pc = "addOnlineUser"
                /\ t2.isAdmin = step'.task.isAdmin
    /\ (step'.op = "addOnlineUser" /\ step'.ok) =>
          onlineUsers'[Len(onlineUsers')].isAdmin = step'.task.isAdmin

\* C33: a join is registered with the role it declares, whatever role is
\* stored for the username; a join for a stored username goes on to its
\* presence record with the declared role; and a user record, once created,
\* is never changed or doubled.
C33_DeclaredRole == [][C33_RoleStep]_vars

\* A user's join was answered on a connection whose username is stored as an
\* admin's.
C33_Witness ==
    /\ step.op = "userJoined"
    /\ Registered(step.task.ws) /\ ~connections[step.task.ws].isAdmin
    /\ \E u \in users : u.username = step.task.username /\ u.isAdmin
    /\ \E k \in 1..Len(onlineUsers) :
          onlineUsers[k].username = step.task.username /\ ~onlineUsers[k].isAdmin
    /\ out # <<>> /\ out[1].type = "userJoined"

\* The store's insert and the fan-out of a message whose sender's connection
\* has closed in the meantime.
C34_ClosedSenderStep ==
    /\ (/\ step'.op = "createMessage" /\ step'.ok
        /\ readyState[step'.task.ws] = "CLOSED") =>
          /\ Len(messages') = Len(messages) + 1
          /\ SubSeq(messages', 1, Len(messages)) = messages
          /\ \E t2 \in BagToSet(tasks') :
                /\ t2.kind = "message" /\ t2.pc = "broadcast" /\ t2.ws = step'.task.ws
                /\ t2.message = messages'[Len(messages')]
    /\ (step'.op = "broadcast" /\ readyState[step'.task.ws] = "CLOSED") =>
          LET info == step'.task.connectionInfo
              data == step'.task.messageData
          IN  /\ Cardinality({i \in 1..Len(messages) :
                     messages[i].id = step'.task.message.id}) = 1
              /\ \A k \in 1..Len(out') :
                    out'[k].type = "message" /\ out'[k].data = step'.task.message
              /\ \A c \in Conns :
                    CopiesNext(c) =
                        IF /\ Writable(c)
                           /\ IF info.isAdmin
                              THEN \/ connections[c].username = data.targetUsername
                                   \/ (connections[c].isAdmin
                                       /\ connections[c].username = info.username)
                              ELSE \/ connections[c].isAdmin
                                   \/ connections[c].username = info.username
                        THEN 1 ELSE 0

\* C34: when the sender's connection closes while createMessage is in flight,
\* the insert still stores the message once and the handler goes on to its
\* fan-out, which sends the message once to every registered open connection
\* of the fan-out set as the registry is then, and to no other; the closed
\* connection gets nothing.
C34_ClosedSender == [][C34_ClosedSenderStep]_vars

\* The sender closed and was removed from the registry before the fan-out,
\* which still reached an admin.
C34_Witness ==
    /\ step.op = "broadcast"
    /\ readyState[step.task.ws] = "CLOSED" /\ ~Registered(step.task.ws)
    /\ ~step.task.connectionInfo.isAdmin
    /\ \E k \in 1..Len(out) : connections[out[k].to].isAdmin
    /\ \E i \in 1..Len(messages) : messages[i] = step.task.message

\* The fan-out of the message event `data` of connection c: the row is in the
\* store, every registered open connection of the fan-out set got it once and
\* nobody else did, and a user's message counts as unread in the index.
C35_Delivered(c, data) ==
    /\ step.op = "broadcast"
    /\ step.task.ws = c /\ step.task.messageData = data
    /\ \E i \in 1..Len(messages) : messages[i] = step.task.message
    /\ \A k \in 1..Len(out) : out[k].type = "message" /\ out[k].data = step.task.message
    /\ \A d \in Conns :
          Copies(d) =
              IF /\ Writable(d)
                 /\ IF step.task.connectionInfo.isAdmin
                    THEN \/ connections[d].username = data.targetUsername
                         \/ (connections[d].isAdmin
                             /\ connections[d].username = step.task.connectionInfo.username)
                    ELSE \/ connections[d].isAdmin
                         \/ connections[d].username = step.task.connectionInfo.username
              THEN 1 ELSE 0
    /\ ~step.task.connectionInfo.isAdmin =>
          UnreadOf(GetAllUsersWithMessages(messages),
                   step.task.connectionInfo.username) >= 1

\* C35: with a store that answers and an event loop that runs, every message
\* event of a registered connection with a valid payload is stored and then
\* fanned out to every connection of its fan-out set that is then registered
\* and open.
C35_EventuallyDelivered ==
    \A c \in Conns : \A data \in MessagePayloads :
        (/\ step.op = "message" /\ step.ws = c /\ step.data = data
         /\ Registered(c)
         /\ InsertMessageSchemaOk(ValidatedMessage(connections[c], data)))
            ~> C35_Delivered(c, data)

\* alice's message reached the connected admin and alice's own connection, and
\* the admin's dashboard lists it as unread.
C35_Witness ==
    /\ step.op = "broadcast" /\ step.task.connectionInfo.username = "alice"
    /\ ~step.task.connectionInfo.isAdmin
    /\ Copies(step.task.ws) = 1
    /\ \E d \in Conns :
          /\ Writable(d) /\ connections[d].isAdmin /\ Copies(d) = 1
          /\ UnreadOf(dashboardUsers[d], "alice") >= 1
    /\ UnreadOf(GetAllUsersWithMessages(messages), "alice") >= 1

\* The createUser call of a join for a well-formed username that another join
\* has inserted since this join looked it up: the call is answered with a user
\* record, and the name has exactly one. The other join, of another connection,
\* is still in flight, just past its own createUser.
C36_CreateUserStep ==
    (/\ step'.op = "createUser" /\ step'.task.kind = "join"
     /\ IsString(step'.task.username)
     /\ GetUserByUsername(users, step'.task.username) # {}
     /\ \E t \in TaskSet : /\ t.kind = "join" /\ t.pc = "addOnlineUser"
                           /\ t.ws # step'.task.ws
                           /\ t.username = step'.task.username) =>
        /\ step'.ok
        /\ Cardinality(GetUserByUsername(users', step'.task.username)) = 1
        /\ \E t \in TaskSet' : t.kind = "join" /\ t.ws = step'.task.ws
                               /\ t.pc = "addOnlineUser"

\* C36: when two connections send their first join for the same unknown
\* username and the handlers interleave at the store awaits, both joins go on
\* to their presence record and bootstrap reply, with one user record.
C36_BothJoinsComplete == [][C36_CreateUserStep]_vars

\* C37: an admin's connection that is open throughout gets a connection's
\* newUser before that connection's userLeft: the join handler sends no newUser
\* for a connection whose close handler has already sent userLeft and deleted
\* it from the registry.
C37_NoNewUserAfterUserLeft ==
    (/\ step.op = "userJoined"
     /\ \E k \in 1..Len(out) : out[k].type = "newUser") =>
        Registered(step.task.ws)

\* C38: two message events of one connection reach every connection that gets
\* both in the order of sending: when the message of the later event is fanned
\* out, the handler of the earlier event of that connection is not still to
\* send its own.
C38_InOrderOfSending ==
    (/\ step.op = "broadcast" /\ out # <<>>
     /\ step.task.messageData.targetUsername = Undefined) =>
        ~\E t \in TaskSet : /\ t.kind = "message" /\ t.ws = step.task.ws
                            /\ t.messageData.targetUsername = "admin"

\* C39: at quiescence the message list of a joined user's chat page is the
\* user's stored conversation with admin, each message once. Here: the
\* userJoined of an open connection ends the last handler in flight, and
\* whatever the page listed before, it lists the stored conversation now.
C39_ListIsConversation ==
    (/\ step.op = "userJoined" /\ tasks = EmptyBag
     /\ readyState[step.task.ws] = "OPEN") =>
        \A prev \in {<<>>, GetMessagesBetweenUsers(messages, step.task.username, "admin")} :
            UserChatMessages(prev, out, step.task.ws) =
                GetMessagesBetweenUsers(messages, step.task.username, "admin")

====
